---- MODULE Spec2Model ----
(***************************************************************************)
(* VaultShare access-control and view-tracking engine.                     *)
(*                                                                         *)
(* One shared artifact (FileUpload row) with its policy, the append-only   *)
(* AccessLog ledger, a clock, and a pool of concurrent request handlers    *)
(* running validate() and serve()/download() (grant).  The handlers are    *)
(* split at their store accesses: policy checks, session query, atomic     *)
(* conditional increment, ledger append.                                   *)
(***************************************************************************)
EXTENDS Integers, Sequences, FiniteSets, TLC

\* ---------------------------------------------------------------- bounds
NumProcs == 2          \* concurrent request handlers
MaxCalls == 2          \* calls sent to the concurrent deployment (Spec)
PolicyCalls == 2       \* calls sent in PolicySpec
SessionCalls == 3      \* calls sent in SessionSpec
ConsumerCalls == 3     \* calls sent in ConsumerSpec
IdentityCalls == 2     \* calls sent in IdentitySpec
NumXhr == 2            \* requests the browser sends through the API client
MaxTime == 3           \* clock ticks
MaxViewsBound == 2     \* largest max_views an upload chooses
MaxPerConsumer == 2    \* largest max_views_per_consumer an upload chooses

\* ------------------------------------------------------ program constants
SessionWindow == 2     \* session_duration of the artifact, in clock ticks
EarlyExpiry == 1       \* expires_at of a short-lived upload
LateExpiry == MaxTime  \* expires_at of an upload that outlives the run

Procs == 1..NumProcs
Anon == "anon"
GrantMethods == {"view", "download"}
Methods == GrantMethods \cup {"validate"}
Passwords == {"none", "wrong", "right"}

\* The access page sends a password only after the backend asked for one.
SuppliedPasswords(a) == IF a.has_password THEN Passwords ELSE {"none"}

VARIABLES artifact, current_views, ledger, now, req, last, calls, clients,
          workers, approved, failed, browser

vars == <<artifact, current_views, ledger, now, req, last, calls, clients,
          workers, approved, failed, browser>>

\* ---------------------------------------------------------- identity
\* Variant: every visitor is tracked by IP address, signed in or not.
IdentityKeyByIp(user, ip) == <<"ip", ip>>

\* Authenticated users are tracked by user id, anonymous ones by IP.
IdentityKey(user, ip) == IF user # Anon THEN <<"user", user>> ELSE <<"ip", ip>>

EntryKey(e) == IdentityKey(e.consumer, e.ip)

\* ------------------------------------------------------------ ledger
\* The fields seen and sess are history annotations: current_views when the
\* request arrived at its handler, and the answer of its session query.
create_access_log(led, r, granted, reason, t) ==
    Append(led, [consumer |-> r.user, ip |-> r.ip, method |-> r.method,
                 granted |-> granted, reason |-> reason, ts |-> t,
                 seen |-> r.cvAtStart, sess |-> r.sess])

GrantedIdx(led, key) ==
    {i \in 1..Len(led) : /\ led[i].granted
                         /\ led[i].method \in GrantMethods
                         /\ EntryKey(led[i]) = key}

\* Variant: the window is anchored at the counted view that opened the
\* session; session hits do not extend it.
isWithinActiveSessionAnchored(led, key, t) ==
    \E i \in GrantedIdx(led, key) : ~led[i].sess /\ led[i].ts >= t - SessionWindow

\* Variant: an entry exactly one session window old no longer counts.
isWithinActiveSessionStrict(led, key, t) ==
    \E i \in GrantedIdx(led, key) : led[i].ts > t - SessionWindow

\* Variant: a session never expires.
isWithinActiveSessionForever(led, key, t) == GrantedIdx(led, key) # {}

\* SessionResolver: a granted view/download entry of this identity whose
\* timestamp is not older than the session window.
isWithinActiveSession(led, key, t) ==
    \E i \in GrantedIdx(led, key) : led[i].ts >= t - SessionWindow

\* Variant: only the accesses that incremented current_views are counted.
get_consumer_view_countNoHits(led, key) ==
    Cardinality({i \in GrantedIdx(led, key) : ~led[i].sess})

\* QuotaEnforcer
get_consumer_view_count(led, key) == Cardinality(GrantedIdx(led, key))

has_consumer_exceeded_limit(a, led, key) ==
    /\ a.max_views_per_consumer > 0
    /\ get_consumer_view_count(led, key) >= a.max_views_per_consumer

\* ---------------------------------------------------------- validator
verify(pw) == pw = "right"

is_expired(a, t) == a.expires_at < t

\* Variant: the authentication test is skipped, anonymous visitors pass.
ConsumerCheckNoSignin(a, led, r) ==
    IF a.require_signin /\ r.user # Anon
       /\ has_consumer_exceeded_limit(a, led, IdentityKey(r.user, r.ip))
    THEN "consumer_quota_exhausted"
    ELSE "ok"

\* Sign-in requirement and per-consumer limit (enforcement point shared by
\* validate() and serve()).
ConsumerCheck(a, led, r) ==
    IF a.require_signin
    THEN IF r.user = Anon THEN "signin_required"
         ELSE IF has_consumer_exceeded_limit(a, led, IdentityKey(r.user, r.ip))
              THEN "consumer_quota_exhausted"
              ELSE "ok"
    ELSE "ok"

\* Variant: the global view limit is not checked.
CheckAccessNoQuota(a, cv, led, r, t) ==
    IF a.deleted THEN "not_found"
    ELSE IF ~a.active THEN "inactive"
    ELSE IF is_expired(a, t) THEN "expired"
    ELSE IF a.has_password /\ ~verify(r.pw) THEN "password_required"
    ELSE ConsumerCheck(a, led, r)

\* Variant: the global view limit is compared with > instead of >=.
CheckAccessQuotaOffByOne(a, cv, led, r, t) ==
    IF a.deleted THEN "not_found"
    ELSE IF ~a.active THEN "inactive"
    ELSE IF is_expired(a, t) THEN "expired"
    ELSE IF cv > a.max_views THEN "quota_exhausted"
    ELSE IF a.has_password /\ ~verify(r.pw) THEN "password_required"
    ELSE ConsumerCheck(a, led, r)

\* Variant: expiry is tested before the active flag.
CheckAccessExpiredFirst(a, cv, led, r, t) ==
    IF a.deleted THEN "not_found"
    ELSE IF is_expired(a, t) THEN "expired"
    ELSE IF ~a.active THEN "inactive"
    ELSE IF cv >= a.max_views THEN "quota_exhausted"
    ELSE IF a.has_password /\ ~verify(r.pw) THEN "password_required"
    ELSE ConsumerCheck(a, led, r)

\* Variant: the password is verified only when one was supplied.
CheckAccessPasswordIfSupplied(a, cv, led, r, t) ==
    IF a.deleted THEN "not_found"
    ELSE IF ~a.active THEN "inactive"
    ELSE IF is_expired(a, t) THEN "expired"
    ELSE IF cv >= a.max_views THEN "quota_exhausted"
    ELSE IF a.has_password /\ r.pw = "wrong" THEN "password_required"
    ELSE ConsumerCheck(a, led, r)

\* The ordered policy checks; first failure wins.
CheckAccess(a, cv, led, r, t) ==
    IF a.deleted THEN "not_found"
    ELSE IF ~a.active THEN "inactive"
    ELSE IF is_expired(a, t) THEN "expired"
    ELSE IF cv >= a.max_views THEN "quota_exhausted"
    ELSE IF a.has_password /\ ~verify(r.pw) THEN "password_required"
    ELSE ConsumerCheck(a, led, r)

PasswordDetail(r) == IF r.pw = "none" THEN "missing" ELSE "incorrect"

DenialDetail(reason, r) ==
    IF reason = "password_required" THEN PasswordDetail(r) ELSE "none"

\* ------------------------------------------------------------- state
\* A handler that serves no request.
IdleReq == [pc |-> "idle", method |-> "validate", user |-> Anon, ip |-> "ip1",
            pw |-> "none", sess |-> FALSE, cvAtStart |-> 0, at |-> 0]

\* The response of the call that finished most recently.
\* The field stage is a history annotation: the step at which the call ended.
NoResponse == [method |-> "validate", user |-> Anon, ip |-> "ip1", pw |-> "none",
               result |-> "none", detail |-> "none", cap |-> FALSE,
               sess |-> FALSE, counted |-> FALSE, cvAtStart |-> 0, at |-> 0,
               stage |-> "idle"]

Response(r, result, detail, cap, counted) ==
    [method |-> r.method, user |-> r.user, ip |-> r.ip, pw |-> r.pw,
     result |-> result, detail |-> detail, cap |-> cap,
     sess |-> r.sess, counted |-> counted, cvAtStart |-> r.cvAtStart,
     at |-> r.at, stage |-> r.pc]

\* approved is a history variable: the arguments of the validate() calls
\* that were answered with success.
Approve(set, r, reason) ==
    IF reason = "ok" THEN set \cup {<<r.user, r.ip, r.pw>>} ELSE set

\* failed is a history variable: the grant calls that ended with
\* transient_error, each with current_views at its arrival and its time.
Fail(set, r, t) ==
    IF r.method \in GrantMethods
    THEN set \cup {[user |-> r.user, ip |-> r.ip, cv |-> r.cvAtStart, at |-> t]}
    ELSE set

\* ---------------------------------------------------------- API client
Xhrs == 1..NumXhr

\* A request of the API client that has not been sent.  sends, refreshes
\* and status are history annotations: transmissions of the request,
\* token refreshes started for it, and the last status it received.
IdleXhr == [pc |-> "idle", isAuthEndpoint |-> FALSE, retry |-> FALSE,
            sends |-> 0, refreshes |-> 0, status |-> 0, outcome |-> "none"]

\* The browser of a visitor who is not signed in and has no request open.
\* logouts is a history annotation: the times forceLogout cleared the
\* storage and redirected since the last resetLogoutFlag.
SignedOut == [user |-> Anon, isLoggingOut |-> FALSE, access_token |-> FALSE,
              refresh_token |-> FALSE, logouts |-> 0,
              xhr |-> [x \in Xhrs |-> IdleXhr]]

\* setAuth: the tokens of a signed-in consumer are kept in localStorage.
setAuth(b, user) ==
    [b EXCEPT !.user = user, !.access_token = TRUE, !.refresh_token = TRUE]

\* Variant: every caller clears the storage and redirects.
forceLogoutUnguarded(b) ==
    [b EXCEPT !.isLoggingOut = TRUE, !.access_token = FALSE,
              !.refresh_token = FALSE, !.user = Anon,
              !.logouts = b.logouts + 1]

forceLogout(b) ==
    IF b.isLoggingOut THEN b
    ELSE [b EXCEPT !.isLoggingOut = TRUE, !.access_token = FALSE,
                   !.refresh_token = FALSE, !.user = Anon,
                   !.logouts = b.logouts + 1]

resetLogoutFlag(b) == [b EXCEPT !.isLoggingOut = FALSE, !.logouts = 0]

Finish(b, x, status, outcome) ==
    [b EXCEPT !.xhr[x].pc = "done", !.xhr[x].status = status,
              !.xhr[x].outcome = outcome]

\* Variant: the retry mark is not consulted, every 401 tries a refresh.
OnRejectedAlwaysRefresh(b, x, status) ==
    IF status = 401 /\ ~b.xhr[x].isAuthEndpoint
    THEN IF b.isLoggingOut THEN Finish(b, x, status, "error")
         ELSE IF b.access_token
              THEN IF ~b.refresh_token
                   THEN Finish(forceLogout(b), x, status, "session_expired")
                   ELSE [b EXCEPT !.xhr[x].retry = TRUE,
                                  !.xhr[x].pc = "refreshing",
                                  !.xhr[x].status = status,
                                  !.xhr[x].refreshes = b.xhr[x].refreshes + 1]
              ELSE Finish(b, x, status, "error")
    ELSE Finish(b, x, status, "error")

\* The response interceptor's error handler up to its await.
OnRejected(b, x, status) ==
    IF status = 401 /\ ~b.xhr[x].isAuthEndpoint
    THEN IF b.isLoggingOut THEN Finish(b, x, status, "error")
         ELSE IF b.access_token /\ ~b.xhr[x].retry
              THEN IF ~b.refresh_token
                   THEN Finish(forceLogout([b EXCEPT !.xhr[x].retry = TRUE]),
                               x, status, "session_expired")
                   ELSE [b EXCEPT !.xhr[x].retry = TRUE,
                                  !.xhr[x].pc = "refreshing",
                                  !.xhr[x].status = status,
                                  !.xhr[x].refreshes = b.xhr[x].refreshes + 1]
              ELSE IF b.access_token
                   THEN Finish(forceLogout(b), x, status, "session_expired")
                   ELSE Finish(b, x, status, "error")
    ELSE Finish(b, x, status, "error")

\* Uploads: the policies an owner can give an artifact in the upload form.
Uploads(exp, mv, pw, dd, si, pc) ==
    [deleted : {FALSE}, active : {TRUE}, expires_at : exp, max_views : mv,
     has_password : pw, disable_download : dd, require_signin : si,
     max_views_per_consumer : pc]

\* clients: the calling contexts the link was handed to; calls: the number
\* of requests they will still send; workers: the number of request
\* handlers the deployment runs side by side.
InitWith(uploads, who, budget, handlers) ==
    /\ artifact \in uploads
    /\ clients = who
    /\ workers = handlers
    /\ current_views = 0
    /\ ledger = <<>>
    /\ now = 0
    /\ req = [p \in Procs |-> IdleReq]
    /\ last = NoResponse
    /\ calls = budget
    /\ approved = {}
    /\ failed = {}
    /\ browser = SignedOut

\* Plain public links shared with two signed-in users, served by
\* concurrent handlers.
Init ==
    InitWith(Uploads({LateExpiry}, 1..MaxViewsBound, {FALSE}, {FALSE}, {FALSE}, {0}),
             {<<"u1", "ip1">>, <<"u2", "ip1">>}, MaxCalls, NumProcs)

\* Every combination of password, sign-in, per-consumer limit and expiry,
\* requests served one after the other.
PolicyInit ==
    InitWith(Uploads({EarlyExpiry, LateExpiry}, {1}, BOOLEAN, {FALSE}, BOOLEAN, {0, 1}),
             {<<"u1", "ip1">>, <<Anon, "ip1">>}, PolicyCalls, 1)

\* Plain public links, requests served one after the other over time.
SessionInit ==
    InitWith(Uploads({LateExpiry}, 1..MaxViewsBound, {FALSE}, {FALSE}, {FALSE}, {0}),
             {<<"u1", "ip1">>, <<"u2", "ip1">>}, SessionCalls, 1)

\* Links with a per-consumer limit, with and without required sign-in.
ConsumerInit ==
    InitWith(Uploads({LateExpiry}, {MaxViewsBound}, {FALSE}, {FALSE}, BOOLEAN,
                     1..MaxPerConsumer),
             {<<"u1", "ip1">>, <<"u2", "ip1">>}, ConsumerCalls, 1)

\* ----------------------------------------------------------- actions
\* A request arrives at a handler: the calling context supplies the
\* identity, the body supplies password and method.
Start(p) ==
    /\ req[p].pc = "idle"
    /\ p <= workers
    /\ \A q \in Procs : q < p => req[q].pc # "idle"
    /\ calls > 0
    /\ \E m \in Methods, who \in clients, pw \in SuppliedPasswords(artifact) :
         req' = [req EXCEPT ![p] =
                   [pc |-> "start", method |-> m, user |-> who[1], ip |-> who[2],
                    pw |-> pw, sess |-> FALSE, cvAtStart |-> current_views,
                    at |-> now]]
    /\ calls' = calls - 1
    /\ UNCHANGED <<artifact, current_views, ledger, now, last, clients, workers, approved, failed, browser>>

\* Variant: a successful validate() is counted as a view.
ValidateCounting(p) ==
    /\ req[p].pc = "start"
    /\ req[p].method = "validate"
    /\ LET reason == CheckAccess(artifact, current_views, ledger, req[p], now)
       IN /\ last' = Response([req[p] EXCEPT !.at = now],
                              IF reason = "ok" THEN "granted" ELSE reason,
                              DenialDetail(reason, req[p]), FALSE, FALSE)
          /\ current_views' = IF reason = "ok" THEN current_views + 1
                                               ELSE current_views
    /\ req' = [req EXCEPT ![p] = IdleReq]
    /\ approved' = Approve(approved, req[p],
                           CheckAccess(artifact, current_views, ledger, req[p], now))
    /\ UNCHANGED <<artifact, ledger, now, calls, clients, workers, failed, browser>>

\* Variant: validate() writes the access to the ledger as a granted view.
ValidateLogging(p) ==
    /\ req[p].pc = "start"
    /\ req[p].method = "validate"
    /\ LET reason == CheckAccess(artifact, current_views, ledger, req[p], now)
       IN /\ last' = Response([req[p] EXCEPT !.at = now],
                              IF reason = "ok" THEN "granted" ELSE reason,
                              DenialDetail(reason, req[p]), FALSE, FALSE)
          /\ ledger' = IF reason = "ok"
                       THEN create_access_log(ledger,
                                [req[p] EXCEPT !.method = "view"], TRUE, "none", now)
                       ELSE ledger
    /\ req' = [req EXCEPT ![p] = IdleReq]
    /\ approved' = Approve(approved, req[p],
                           CheckAccess(artifact, current_views, ledger, req[p], now))
    /\ UNCHANGED <<artifact, current_views, now, calls, clients, workers, failed, browser>>

\* validate(): permission checks only, no logging, no counting.
Validate(p) ==
    /\ req[p].pc = "start"
    /\ req[p].method = "validate"
    /\ LET reason == CheckAccess(artifact, current_views, ledger, req[p], now)
       IN last' = Response([req[p] EXCEPT !.at = now],
                           IF reason = "ok" THEN "granted" ELSE reason,
                           DenialDetail(reason, req[p]), FALSE, FALSE)
    /\ req' = [req EXCEPT ![p] = IdleReq]
    /\ approved' = Approve(approved, req[p],
                           CheckAccess(artifact, current_views, ledger, req[p], now))
    /\ UNCHANGED <<artifact, current_views, ledger, now, calls, clients, workers, failed, browser>>

\* Variant: view-only mode is left to the download button of the page.
GrantCheckButtonOnly(a, cv, led, r, t) == CheckAccess(a, cv, led, r, t)

\* The checks of serve()/download(): the validator's, then view-only mode.
GrantCheck(a, cv, led, r, t) ==
    LET base == CheckAccess(a, cv, led, r, t)
    IN IF base = "ok" /\ r.method = "download" /\ a.disable_download
       THEN "download_disabled" ELSE base

\* grant step 1: re-run the checks; a failure is logged and returned.
GrantValidate(p) ==
    /\ req[p].pc = "start"
    /\ req[p].method \in GrantMethods
    /\ LET reason == GrantCheck(artifact, current_views, ledger, req[p], now)
       IN IF reason = "ok"
          THEN /\ req' = [req EXCEPT ![p].pc = "validated", ![p].at = now]
               /\ UNCHANGED <<ledger, last>>
          ELSE /\ req' = [req EXCEPT ![p] = IdleReq]
               /\ last' = Response([req[p] EXCEPT !.at = now], reason,
                                   DenialDetail(reason, req[p]), FALSE, FALSE)
               /\ ledger' = create_access_log(ledger, req[p], FALSE, reason, now)
    /\ UNCHANGED <<artifact, current_views, now, calls, clients, workers, approved, failed, browser>>

\* grant step 2: session query over the ledger.
GrantSession(p) ==
    /\ req[p].pc = "validated"
    /\ LET hit == isWithinActiveSession(ledger,
                      IdentityKey(req[p].user, req[p].ip), now)
       IN req' = [req EXCEPT ![p].pc = IF hit THEN "hit" ELSE "new",
                             ![p].sess = hit, ![p].at = now]
    /\ UNCHANGED <<artifact, current_views, ledger, now, last, calls, clients, workers, approved, failed, browser>>

\* Variant: a plain atomic increment without the ceiling.
BelowCeilingAlways(cv, a) == TRUE

\* The condition of the atomic "increment if below ceiling" statement.
BelowCeiling(cv, a) == cv < a.max_views

\* grant step 3: one atomic conditional update of the counter.
GrantIncrement(p) ==
    /\ req[p].pc = "new"
    /\ IF BelowCeiling(current_views, artifact)
       THEN /\ current_views' = current_views + 1
            /\ req' = [req EXCEPT ![p].pc = "counted"]
            /\ UNCHANGED <<ledger, last>>
       ELSE /\ req' = [req EXCEPT ![p] = IdleReq]
            /\ last' = Response(req[p], "quota_exhausted", "none", FALSE, FALSE)
            /\ ledger' = create_access_log(ledger, req[p], FALSE,
                                           "quota_exhausted", now)
            /\ UNCHANGED current_views
    /\ UNCHANGED <<artifact, now, calls, clients, workers, approved, failed, browser>>

\* Variant: only counted views are written to the ledger, session hits
\* are served without an entry.
GrantLogCountedOnly(p) ==
    /\ req[p].pc \in {"hit", "counted"}
    /\ ledger' = IF req[p].pc = "counted"
                 THEN create_access_log(ledger, req[p], TRUE, "none", now)
                 ELSE ledger
    /\ last' = Response(req[p], "granted", "none", TRUE, req[p].pc = "counted")
    /\ req' = [req EXCEPT ![p] = IdleReq]
    /\ UNCHANGED <<artifact, current_views, now, calls, clients, workers, approved, failed, browser>>

\* grant steps 4 and 5: append the granted entry, issue the capability.
GrantLog(p) ==
    /\ req[p].pc \in {"hit", "counted"}
    /\ ledger' = create_access_log(ledger, req[p], TRUE, "none", now)
    /\ last' = Response(req[p], "granted", "none", TRUE, req[p].pc = "counted")
    /\ req' = [req EXCEPT ![p] = IdleReq]
    /\ UNCHANGED <<artifact, current_views, now, calls, clients, workers, approved, failed, browser>>

\* Owner-initiated deactivation and (soft) deletion.
Deactivate ==
    /\ artifact.active
    /\ artifact' = [artifact EXCEPT !.active = FALSE]
    /\ UNCHANGED <<current_views, ledger, now, req, last, calls, clients, workers, approved, failed, browser>>

Delete ==
    /\ ~artifact.deleted
    /\ artifact' = [artifact EXCEPT !.deleted = TRUE]
    /\ UNCHANGED <<current_views, ledger, now, req, last, calls, clients, workers, approved, failed, browser>>

Tick ==
    /\ now < MaxTime
    /\ now' = now + 1
    /\ UNCHANGED <<artifact, current_views, ledger, req, last, calls, clients, workers, approved, failed, browser>>

Next ==
    \/ \E p \in Procs : Start(p)
    \/ \E p \in Procs : Validate(p)
    \/ \E p \in Procs : GrantValidate(p)
    \/ \E p \in Procs : GrantSession(p)
    \/ \E p \in Procs : GrantIncrement(p)
    \/ \E p \in Procs : GrantLog(p)
    \/ Deactivate
    \/ Delete
    \/ Tick

Spec == Init /\ [][Next]_vars

PolicySpec == PolicyInit /\ [][Next]_vars

SessionSpec == SessionInit /\ [][Next]_vars

ConsumerSpec == ConsumerInit /\ [][Next]_vars

\* Links with and without view-only mode, served by concurrent handlers.
ViewOnlyInit ==
    InitWith(Uploads({LateExpiry}, 1..MaxViewsBound, {FALSE}, BOOLEAN, {FALSE}, {0}),
             {<<"u1", "ip1">>, <<"u2", "ip1">>}, MaxCalls, NumProcs)

ViewOnlySpec == ViewOnlyInit /\ [][Next]_vars

\* Links with and without sign-in and per-consumer limit, opened by one
\* signed-in user and by anonymous visitors, each from two addresses.
IdentityInit ==
    InitWith(Uploads({LateExpiry}, {MaxViewsBound}, {FALSE}, {FALSE}, BOOLEAN, {0, 1}),
             {<<"u1", "ip1">>, <<"u1", "ip2">>, <<Anon, "ip1">>, <<Anon, "ip2">>},
             IdentityCalls, 1)

IdentitySpec == IdentityInit /\ [][Next]_vars

\* Links with every per-consumer setting, unlimited included, with and
\* without required sign-in.
QuotaInit ==
    InitWith(Uploads({LateExpiry}, {MaxViewsBound}, {FALSE}, {FALSE}, BOOLEAN,
                     0..MaxPerConsumer),
             {<<"u1", "ip1">>, <<"u2", "ip1">>}, ConsumerCalls, 1)

QuotaSpec == QuotaInit /\ [][Next]_vars

\* Sign-in links with a per-consumer limit of one view, served by
\* concurrent handlers.
ConsumerRaceInit ==
    InitWith(Uploads({LateExpiry}, {MaxViewsBound}, {FALSE}, {FALSE}, {TRUE}, {1}),
             {<<"u1", "ip1">>, <<"u2", "ip1">>}, MaxCalls, NumProcs)

ConsumerRaceSpec == ConsumerRaceInit /\ [][Next]_vars

\* ------------------------------------------------------ storage faults
\* Variant: a storage fault is answered like a refused request and written
\* to the ledger as a denial.
StoreFailAsDenial(p) ==
    /\ req[p].pc # "idle"
    /\ last' = Response(req[p], "quota_exhausted", "none", FALSE, FALSE)
    /\ ledger' = IF req[p].method \in GrantMethods
                 THEN create_access_log(ledger, req[p], FALSE,
                                        "quota_exhausted", now)
                 ELSE ledger
    /\ req' = [req EXCEPT ![p] = IdleReq]
    /\ UNCHANGED <<artifact, current_views, now, calls, clients, workers, approved, failed, browser>>

\* The store access a handler is about to make fails (row read, session
\* query, counter update or ledger insert): the call ends with
\* transient_error.  What the earlier statements of the call wrote stays.
StoreFail(p) ==
    /\ req[p].pc # "idle"
    /\ last' = Response(req[p], "transient_error", "none", FALSE, FALSE)
    /\ req' = [req EXCEPT ![p] = IdleReq]
    /\ failed' = Fail(failed, req[p], now)
    /\ UNCHANGED <<artifact, current_views, ledger, now, calls, clients, workers, approved, browser>>

\* A plain public link opened by one signed-in user, served by concurrent
\* handlers over an unreliable store.
FaultInit ==
    InitWith(Uploads({LateExpiry}, 1..MaxViewsBound, {FALSE}, {FALSE}, {FALSE}, {0}),
             {<<"u1", "ip1">>}, MaxCalls, NumProcs)

FaultNext ==
    \/ Next
    \/ \E p \in Procs : StoreFail(p)

FaultSpec == FaultInit /\ [][FaultNext]_vars

\* Plain public links over an unreliable store, requests served one after
\* the other: a caller retries after a failure.
RetryInit ==
    InitWith(Uploads({LateExpiry}, {MaxViewsBound}, {FALSE}, {FALSE}, {FALSE}, {0}),
             {<<"u1", "ip1">>, <<"u2", "ip1">>}, MaxCalls, 1)

RetrySpec == RetryInit /\ [][FaultNext]_vars

\* ------------------------------------------------------- access page
\* publicAPI: validate, view and download are posted with the bare HTTP
\* library, without Authorization header; the backend sees an anonymous
\* requester at the browser's address.
publicAPI(b, ip) == <<Anon, ip>>

\* A consumer has signed in and opens links, with and without required
\* sign-in and password, on the access page.
PageInit ==
    /\ artifact \in Uploads({LateExpiry}, {MaxViewsBound}, BOOLEAN, {FALSE},
                             BOOLEAN, {0})
    /\ browser = setAuth(SignedOut, "u1")
    /\ clients = {publicAPI(browser, "ip1")}
    /\ workers = 1
    /\ current_views = 0
    /\ ledger = <<>>
    /\ now = 0
    /\ req = [p \in Procs |-> IdleReq]
    /\ last = NoResponse
    /\ calls = PolicyCalls
    /\ approved = {}
    /\ failed = {}

PageSpec == PageInit /\ [][Next]_vars

\* ------------------------------------------------ API client actions
backend == <<artifact, current_views, ledger, now, req, last, calls, clients,
             workers, approved, failed>>

\* A component calls the API client; login and register go to the auth
\* endpoints.
Send(x) ==
    /\ browser.xhr[x].pc = "idle"
    /\ \E auth \in BOOLEAN :
         browser' = [browser EXCEPT !.xhr[x].pc = "sent",
                                    !.xhr[x].isAuthEndpoint = auth,
                                    !.xhr[x].sends = 1]
    /\ UNCHANGED backend

\* The server answers 2xx.
Fulfilled(x) ==
    /\ browser.xhr[x].pc = "sent"
    /\ browser' = Finish(browser, x, 200, "ok")
    /\ UNCHANGED backend

\* The server answers with an error status.
Rejected(x) ==
    /\ browser.xhr[x].pc = "sent"
    /\ \E status \in {401, 403} : browser' = OnRejected(browser, x, status)
    /\ UNCHANGED backend

\* The token refresh succeeded: store the new access token and replay the
\* original request through the client.
RefreshFulfilled(x) ==
    /\ browser.xhr[x].pc = "refreshing"
    /\ browser' = [browser EXCEPT !.access_token = TRUE,
                                  !.xhr[x].pc = "sent",
                                  !.xhr[x].sends = browser.xhr[x].sends + 1]
    /\ UNCHANGED backend

\* The token refresh failed.
RefreshRejected(x) ==
    /\ browser.xhr[x].pc = "refreshing"
    /\ browser' = Finish(forceLogout(browser), x, browser.xhr[x].status,
                         "session_expired")
    /\ UNCHANGED backend

\* authAPI.login: the flag is reset before the login request is sent.
LoginStart ==
    /\ browser.isLoggingOut
    /\ browser' = resetLogoutFlag(browser)
    /\ UNCHANGED backend

\* The login succeeded and the store keeps the tokens.
LoginDone ==
    /\ ~browser.isLoggingOut
    /\ ~browser.access_token
    /\ browser' = setAuth(browser, "u1")
    /\ UNCHANGED backend

\* A signed-in consumer whose access token the server may reject, with or
\* without a refresh token in the storage.
ClientInit ==
    /\ artifact \in Uploads({LateExpiry}, {1}, {FALSE}, {FALSE}, {FALSE}, {0})
    /\ clients = {<<"u1", "ip1">>}
    /\ workers = 1
    /\ current_views = 0
    /\ ledger = <<>>
    /\ now = 0
    /\ req = [p \in Procs |-> IdleReq]
    /\ last = NoResponse
    /\ calls = 0
    /\ approved = {}
    /\ failed = {}
    /\ \E rt \in BOOLEAN :
         browser = [setAuth(SignedOut, "u1") EXCEPT !.refresh_token = rt]

ClientNext ==
    \/ \E x \in Xhrs : Send(x)
    \/ \E x \in Xhrs : Fulfilled(x)
    \/ \E x \in Xhrs : Rejected(x)
    \/ \E x \in Xhrs : RefreshFulfilled(x)
    \/ \E x \in Xhrs : RefreshRejected(x)
    \/ LoginStart
    \/ LoginDone

ClientSpec == ClientInit /\ [][ClientNext]_vars

\* =====================================================================
\* Properties
\* =====================================================================

\* C1: for every artifact, in every reachable state and under every
\* interleaving of validate and grant calls, current_views <= max_views.
C1_ViewsNeverExceedMax == current_views <= artifact.max_views

\* A validated grant is about to run its increment on a full counter.
C1_Witness ==
    /\ current_views = artifact.max_views
    /\ \E p \in Procs : req[p].pc = "new"

\* C2 (as stated): N concurrent grant calls, each passing every other policy
\* check, that arrive when max_views - current_views = k < N end in exactly
\* k successes and N - k quota_exhausted denials.
C2_Original ==
    LET N == Len(ledger)
        k == artifact.max_views - ledger[1].seen
        won == {i \in 1..N : ledger[i].granted}
        lost == {i \in 1..N : ~ledger[i].granted
                              /\ ledger[i].reason = "quota_exhausted"}
    IN (/\ \A p \in Procs : req[p].pc = "idle"
        /\ N >= 1
        /\ \A i \in 1..N : /\ ledger[i].seen = ledger[1].seen
                           /\ i \in won \cup lost
        /\ k < N)
       => (Cardinality(won) = k /\ Cardinality(lost) = N - k)

\* C2 (amended): the same, for N calls issued by N different identities,
\* none of which is inside an active session.
C2_DistinctIdentities ==
    LET N == Len(ledger)
        k == artifact.max_views - ledger[1].seen
        won == {i \in 1..N : ledger[i].granted}
        lost == {i \in 1..N : ~ledger[i].granted
                              /\ ledger[i].reason = "quota_exhausted"}
        Same(e, f) == /\ e.consumer = f.consumer
                      /\ e.consumer = Anon => e.ip = f.ip
    IN (/\ \A p \in Procs : req[p].pc = "idle"
        /\ N >= 1
        /\ \A i \in 1..N : /\ ledger[i].seen = ledger[1].seen
                           /\ i \in won \cup lost
        /\ \A i, j \in 1..N : i # j => ~Same(ledger[i], ledger[j])
        /\ k < N)
       => (Cardinality(won) = k /\ Cardinality(lost) = N - k)

\* Two different identities raced for the last slot: one won, one lost.
C2_Witness ==
    /\ \A p \in Procs : req[p].pc = "idle"
    /\ Len(ledger) >= 2
    /\ \A i \in 1..Len(ledger) : ledger[i].seen = ledger[1].seen
    /\ ledger[1].consumer # ledger[2].consumer
    /\ artifact.max_views - ledger[1].seen < Len(ledger)
    /\ \E i \in 1..Len(ledger) : ledger[i].granted
    /\ \E i \in 1..Len(ledger) : ledger[i].reason = "quota_exhausted"

\* C3: in a sequence of successful grant(view) calls by one identity, a call
\* made while an earlier granted view/download of that identity is inside
\* session_window leaves current_views alone, and a call made after the
\* window has expired (or with no earlier grant) increments it by exactly 1.
C3_SessionCounting ==
    LET Same(e) == /\ e.consumer = last.user
                   /\ last.user = Anon => e.ip = last.ip
        inWindow == \E i \in 1..(Len(ledger) - 1) :
                       /\ ledger[i].granted
                       /\ ledger[i].method \in GrantMethods
                       /\ Same(ledger[i])
                       /\ ledger[i].ts >= last.at - SessionWindow
    IN (/\ \A p \in Procs : req[p].pc = "idle"
        /\ last.method = "view"
        /\ last.result = "granted")
       => current_views = last.cvAtStart + (IF inWindow THEN 0 ELSE 1)

\* A returning identity whose session has expired was counted again.
C3_Witness ==
    /\ \A p \in Procs : req[p].pc = "idle"
    /\ last.method = "view"
    /\ last.result = "granted"
    /\ last.counted
    /\ current_views = last.cvAtStart + 1
    /\ \E i \in 1..(Len(ledger) - 1) :
          /\ ledger[i].granted
          /\ ledger[i].consumer = last.user
          /\ ledger[i].ts < last.at - SessionWindow

\* C4: validate() leaves current_views unchanged, whatever its outcome and
\* however it is interleaved with grant calls.
C4_ValidateKeepsViews ==
    [][\A p \in Procs :
         (\/ /\ req[p].pc = "idle"
             /\ req'[p].pc = "start"
             /\ req'[p].method = "validate"
          \/ /\ req[p].pc = "start"
             /\ req[p].method = "validate"
             /\ req'[p].pc = "idle")
         => current_views' = current_views]_vars

\* A validate() call returned while a counted grant was still in flight.
C4_Witness ==
    /\ last.method = "validate"
    /\ last.result # "none"
    /\ \E p \in Procs : req[p].pc = "counted"

\* C5: a grant call that arrives once current_views = max_views never
\* returns success, for any identity and method, inside a session or not.
C5_ExhaustedIsTerminal ==
    /\ (last.method \in GrantMethods /\ last.cvAtStart = artifact.max_views)
         => (last.result # "granted" /\ ~last.cap)
    /\ \A p \in Procs :
         (req[p].method \in GrantMethods /\ req[p].cvAtStart = artifact.max_views)
         => req[p].pc = "start"

\* An identity inside its active session was refused on the full artifact.
C5_Witness ==
    /\ last.method \in GrantMethods
    /\ last.cvAtStart = artifact.max_views
    /\ last.result = "quota_exhausted"
    /\ \E i \in 1..(Len(ledger) - 1) :
          /\ ledger[i].granted
          /\ ledger[i].consumer = last.user
          /\ ledger[i].ts >= last.at - SessionWindow

\* C6 (as stated): with max_views = 1 and no password, the first grant(view)
\* is granted and sets current_views = 1, a grant(view) by the same identity
\* inside the session window is granted as a session hit with current_views
\* still 1, and one after the window is denied with quota_exhausted.
C6_Original ==
    LET prior == {i \in 1..(Len(ledger) - 1) :
                     /\ ledger[i].granted
                     /\ ledger[i].method \in GrantMethods
                     /\ ledger[i].consumer = last.user
                     /\ last.user = Anon => ledger[i].ip = last.ip}
        recent == {i \in prior : ledger[i].ts >= last.at - SessionWindow}
    IN (/\ artifact.max_views = 1
        /\ ~artifact.has_password
        /\ \A p \in Procs : req[p].pc = "idle"
        /\ last.method = "view"
        /\ last.result \in {"granted", "quota_exhausted"})
       => /\ last.cvAtStart = 0
               => (last.result = "granted" /\ current_views = 1)
          /\ recent # {}
               => (last.result = "granted" /\ ~last.counted /\ current_views = 1)
          /\ (prior # {} /\ recent = {})
               => last.result = "quota_exhausted"

\* C6 (amended): the first grant(view) is granted and sets current_views = 1;
\* every later grant(view) by the same identity, inside the session window
\* or after it, is denied with quota_exhausted and current_views stays 1.
C6_ExhaustedBeatsSession ==
    LET prior == {i \in 1..(Len(ledger) - 1) :
                     /\ ledger[i].granted
                     /\ ledger[i].method \in GrantMethods
                     /\ ledger[i].consumer = last.user
                     /\ last.user = Anon => ledger[i].ip = last.ip}
    IN (/\ artifact.max_views = 1
        /\ ~artifact.has_password
        /\ \A p \in Procs : req[p].pc = "idle"
        /\ last.method = "view"
        /\ last.result \in {"granted", "quota_exhausted"})
       => /\ last.cvAtStart = 0
               => (last.result = "granted" /\ current_views = 1)
          /\ prior # {}
               => (last.result = "quota_exhausted" /\ ~last.cap
                   /\ current_views = 1)

\* The second grant(view), inside the session window, was denied.
C6_Witness ==
    /\ artifact.max_views = 1
    /\ ~artifact.has_password
    /\ last.method = "view"
    /\ last.result = "quota_exhausted"
    /\ current_views = 1
    /\ \E i \in 1..(Len(ledger) - 1) :
          /\ ledger[i].granted
          /\ ledger[i].method = "view"
          /\ ledger[i].consumer = last.user
          /\ ledger[i].ts < last.at
          /\ ledger[i].ts >= last.at - SessionWindow

C8_PerConsumerLimit ==
    LET used == Cardinality({i \in 1..(Len(ledger) - 1) :
                               /\ ledger[i].granted
                               /\ ledger[i].method \in GrantMethods
                               /\ ledger[i].consumer = last.user
                               /\ last.user = Anon => ledger[i].ip = last.ip})
    IN (/\ artifact.max_views_per_consumer > 0
        /\ last.method \in GrantMethods
        /\ last.result \in {"granted", "consumer_quota_exhausted"})
       => (last.result = "consumer_quota_exhausted"
             <=> used >= artifact.max_views_per_consumer)

\* C9: on a require_signin artifact an anonymous validate or grant that
\* passes checks 1-5 is denied with signin_required; the same call by an
\* authenticated identity is never denied with signin_required and is
\* decided by the consumer-quota check.
C9_SigninRequired ==
    [][\A p \in Procs :
         (/\ req[p].pc = "start" /\ req'[p].pc # "start"
          /\ artifact.require_signin
          /\ ~artifact.deleted /\ artifact.active
          /\ ~(artifact.expires_at < now)
          /\ current_views < artifact.max_views
          /\ (artifact.has_password => req[p].pw = "right")) =>
           LET r == req[p]
               out == IF req'[p].pc = "idle" THEN last'.result ELSE "ok"
               used == Cardinality({i \in 1..Len(ledger) :
                                      /\ ledger[i].granted
                                      /\ ledger[i].method \in GrantMethods
                                      /\ ledger[i].consumer = r.user})
               over == /\ artifact.max_views_per_consumer > 0
                       /\ used >= artifact.max_views_per_consumer
           IN IF r.user = Anon
              THEN out = "signin_required"
              ELSE /\ out # "signin_required"
                   /\ out = "consumer_quota_exhausted" <=> over]_vars

\* An anonymous grant was denied and a signed-in call then passed.
C9_Witness ==
    /\ artifact.require_signin
    /\ last.user # Anon
    /\ last.result = "granted"
    /\ \E i \in 1..Len(ledger) :
          /\ ledger[i].consumer = Anon
          /\ ~ledger[i].granted
          /\ ledger[i].reason = "signin_required"

\* C10: on a password-protected artifact a grant or validate without the
\* right password is denied with password_required, detail incorrect for a
\* wrong password and missing for none; current_views is unchanged and no
\* capability is issued.
C10_PasswordRequired ==
    [][\A p \in Procs :
         (/\ req[p].pc = "start" /\ req'[p].pc # "start"
          /\ artifact.has_password
          /\ req[p].pw # "right"
          /\ ~artifact.deleted /\ artifact.active
          /\ ~(artifact.expires_at < now)
          /\ current_views < artifact.max_views) =>
           /\ req'[p].pc = "idle"
           /\ last'.result = "password_required"
           /\ last'.detail = (IF req[p].pw = "none" THEN "missing"
                                                    ELSE "incorrect")
           /\ ~last'.cap
           /\ current_views' = current_views]_vars

\* A download with a wrong password was refused and logged as denied.
C10_Witness ==
    /\ last.method = "download"
    /\ last.pw = "wrong"
    /\ last.result = "password_required"
    /\ last.detail = "incorrect"
    /\ ~last.cap
    /\ Len(ledger) >= 1
    /\ ~ledger[Len(ledger)].granted
    /\ ledger[Len(ledger)].reason = "password_required"

\* C11: grant re-runs the full validation at call time: once a validate has
\* succeeded, a following grant with the same arguments is denied with
\* inactive, expired, quota_exhausted or consumer_quota_exhausted when the
\* artifact has become inactive, expired or exhausted, or the identity has
\* reached its consumer quota, in the meantime.
C11_GrantRevalidates ==
    [][\A p \in Procs :
         (/\ req[p].pc = "start" /\ req'[p].pc # "start"
          /\ req[p].method \in GrantMethods
          /\ <<req[p].user, req[p].ip, req[p].pw>> \in approved
          /\ ~artifact.deleted) =>
           LET r == req[p]
               out == IF req'[p].pc = "idle" THEN last'.result ELSE "ok"
               off == ~artifact.active
               late == artifact.expires_at < now
               full == current_views >= artifact.max_views
               used == Cardinality({i \in 1..Len(ledger) :
                                      /\ ledger[i].granted
                                      /\ ledger[i].method \in GrantMethods
                                      /\ ledger[i].consumer = r.user
                                      /\ r.user = Anon => ledger[i].ip = r.ip})
               over == /\ artifact.max_views_per_consumer > 0
                       /\ used >= artifact.max_views_per_consumer
           IN /\ off => out = "inactive"
              /\ (~off /\ late) => out = "expired"
              /\ (~off /\ ~late /\ full) => out = "quota_exhausted"
              /\ (~off /\ ~late /\ ~full /\ over)
                   => out = "consumer_quota_exhausted"]_vars

\* C12: no validate call, whatever its outcome, appends a granted
\* view/download entry to the ledger, so it changes neither the session
\* status nor the consumer view count of any identity.
C12_ValidateWritesNoGrant ==
    [][\A p \in Procs :
         (\/ /\ req[p].pc = "idle"
             /\ req'[p].pc = "start"
             /\ req'[p].method = "validate"
          \/ /\ req[p].pc = "start"
             /\ req[p].method = "validate"
             /\ req'[p].pc = "idle")
         => /\ Len(ledger') >= Len(ledger)
            /\ \A i \in 1..Len(ledger) : ledger'[i] = ledger[i]
            /\ \A i \in (Len(ledger) + 1)..Len(ledger') :
                  ~(ledger'[i].granted /\ ledger'[i].method \in GrantMethods)
            /\ \A who \in clients :
                  LET key == IdentityKey(who[1], who[2])
                  IN /\ get_consumer_view_count(ledger', key)
                          = get_consumer_view_count(ledger, key)
                     /\ \A t \in 0..MaxTime :
                          isWithinActiveSession(ledger', key, t)
                            = isWithinActiveSession(ledger, key, t)]_vars

\* A validate succeeded for an identity that holds an active session while
\* the ledger kept its single granted entry.
C12_Witness ==
    /\ last.method = "validate"
    /\ last.result = "granted"
    /\ Len(ledger) = 1
    /\ ledger[1].granted
    /\ ledger[1].consumer = last.user
    /\ ledger[1].ts >= last.at - SessionWindow

C15_IncrementWithEntry ==
    (\A p \in Procs : req[p].pc = "idle")
      => current_views = Cardinality({i \in 1..Len(ledger) :
                                        ledger[i].granted /\ ~ledger[i].sess})

\* C16: a grant with method download on an artifact with disable_download
\* is always denied at the policy-check step: no capability is issued,
\* current_views is not incremented and no granted entry is appended.
C16_DownloadDisabled ==
    /\ [][\A p \in Procs :
            (/\ artifact.disable_download
             /\ req[p].pc = "start" /\ req[p].method = "download"
             /\ req'[p] # req[p]) =>
              /\ req'[p].pc = "idle"
              /\ last'.method = "download"
              /\ last'.result \notin {"granted", "none"}
              /\ ~last'.cap
              /\ current_views' = current_views
              /\ Len(ledger') = Len(ledger) + 1
              /\ ~ledger'[Len(ledger')].granted]_vars
    /\ [](artifact.disable_download =>
            \A i \in 1..Len(ledger) :
               ledger[i].method = "download" => ~ledger[i].granted)

\* A download of a view-only artifact with free view slots was refused
\* after a view of the same identity had been granted.
C16_Witness ==
    /\ artifact.disable_download
    /\ artifact.active /\ ~artifact.deleted
    /\ current_views < artifact.max_views
    /\ last.method = "download"
    /\ last.result = "download_disabled"
    /\ Len(ledger) = 2
    /\ ledger[1].granted /\ ledger[1].method = "view"
    /\ ledger[1].consumer = last.user
    /\ ~ledger[2].granted /\ ledger[2].method = "download"

\* C17: the per-consumer limit is enforced independently of require_signin:
\* with require_signin = false and max_views_per_consumer = L > 0, an
\* anonymous identity that already has L granted view/download entries is
\* denied with consumer_quota_exhausted on its next validate or grant.
C17_AnonymousConsumerLimit ==
    [][\A p \in Procs :
         (/\ req[p].pc = "start" /\ req'[p].pc # "start"
          /\ ~artifact.require_signin
          /\ artifact.max_views_per_consumer > 0
          /\ req[p].user = Anon
          /\ ~artifact.deleted /\ artifact.active
          /\ ~(artifact.expires_at < now)
          /\ current_views < artifact.max_views
          /\ (artifact.has_password => req[p].pw = "right")
          /\ Cardinality({i \in 1..Len(ledger) :
                            /\ ledger[i].granted
                            /\ ledger[i].method \in GrantMethods
                            /\ ledger[i].consumer = Anon
                            /\ ledger[i].ip = req[p].ip})
                >= artifact.max_views_per_consumer) =>
           /\ req'[p].pc = "idle"
           /\ last'.result = "consumer_quota_exhausted"]_vars

\* C18: two accesses are grouped into the same session and the same
\* consumer count iff they carry the same identity key: grants by one
\* authenticated user from different IP addresses within session_window
\* increment current_views once, grants by anonymous requesters from two
\* different IP addresses are counted as two sessions.
C18_GroupedByIdentityKey ==
    LET SameIdentity(e) ==
            IF last.user # Anon THEN e.consumer = last.user
            ELSE e.consumer = Anon /\ e.ip = last.ip
        prior == {i \in 1..(Len(ledger) - 1) :
                     /\ ledger[i].granted
                     /\ ledger[i].method \in GrantMethods
                     /\ SameIdentity(ledger[i])}
        inWindow == \E i \in prior : ledger[i].ts >= last.at - SessionWindow
    IN (/\ \A p \in Procs : req[p].pc = "idle"
        /\ last.method \in GrantMethods
        /\ last.result \in {"granted", "consumer_quota_exhausted"})
       => /\ last.result = "granted"
               => /\ last.sess <=> inWindow
                  /\ current_views = last.cvAtStart + (IF inWindow THEN 0 ELSE 1)
          /\ last.result = "consumer_quota_exhausted"
               => Cardinality(prior) >= artifact.max_views_per_consumer
          /\ (artifact.require_signin /\ artifact.max_views_per_consumer > 0
              /\ Cardinality(prior) >= artifact.max_views_per_consumer)
               => last.result = "consumer_quota_exhausted"

\* The signed-in user came back from another address inside the session
\* window and was served without a second count.
C18_Witness ==
    /\ \A p \in Procs : req[p].pc = "idle"
    /\ last.user # Anon
    /\ last.result = "granted"
    /\ last.sess /\ ~last.counted
    /\ current_views = 1
    /\ Len(ledger) = 2
    /\ ledger[1].granted
    /\ ledger[1].consumer = last.user
    /\ ledger[1].ip # last.ip

\* C19: a grant that passed validation but whose conditional increment
\* finds current_views = max_views, a concurrent grant having taken the
\* last slot, returns quota_exhausted in the shape of the policy denial,
\* issues no capability and appends no granted ledger entry.
C19_ContentionDenial ==
    [][\A p \in Procs :
         (/\ req[p].pc = "new"
          /\ current_views = artifact.max_views
          /\ req'[p] # req[p]) =>
           /\ req'[p].pc = "idle"
           /\ last'.result = "quota_exhausted"
           /\ last'.detail = "none"
           /\ ~last'.cap
           /\ current_views' = current_views
           /\ Len(ledger') = Len(ledger) + 1
           /\ ~ledger'[Len(ledger')].granted
           /\ ledger'[Len(ledger')].reason = "quota_exhausted"]_vars

\* Two identities raced for the last slot; the loser had passed validation
\* and was refused at its increment.
C19_Witness ==
    /\ last.stage = "new"
    /\ last.result = "quota_exhausted"
    /\ ~last.cap
    /\ last.cvAtStart < artifact.max_views
    /\ current_views = artifact.max_views
    /\ ~ledger[Len(ledger)].granted

\* C20: when two or more grant calls by the same identity, which has no
\* active session, run concurrently on the same artifact and all succeed,
\* current_views increases by exactly 1 in total.
C20_OncePerSessionConcurrent ==
    (/\ \A p \in Procs : req[p].pc = "idle"
     /\ Len(ledger) >= 2
     /\ \A i \in 1..Len(ledger) :
           /\ ledger[i].granted
           /\ ledger[i].seen = ledger[1].seen
           /\ ledger[i].consumer = ledger[1].consumer
           /\ ledger[i].ip = ledger[1].ip)
      => current_views = ledger[1].seen + 1

\* C21: a session hit extends the session: when every granted entry of an
\* identity lies within session_window of the identity's previous granted
\* entry, only the first of them incremented current_views, however long
\* the sequence lasts in total.
C21_SlidingSession ==
    \A who \in clients :
       LET G == {i \in 1..Len(ledger) :
                   /\ ledger[i].granted
                   /\ ledger[i].method \in GrantMethods
                   /\ ledger[i].consumer = who[1]
                   /\ who[1] = Anon => ledger[i].ip = who[2]}
           Prev(i) == CHOOSE j \in G : j < i /\ \A k \in G : k < i => k <= j
           chained == \A i \in G :
                         (\E j \in G : j < i)
                           => ledger[i].ts - ledger[Prev(i)].ts <= SessionWindow
       IN (G # {} /\ chained)
            => Cardinality({i \in G : ~ledger[i].sess}) = 1

\* Three grants of one identity, each within the window of the one before,
\* the last one later than a window after the first: counted once.
C21_Witness ==
    /\ \A p \in Procs : req[p].pc = "idle"
    /\ Len(ledger) = 3
    /\ \A i \in 1..3 : ledger[i].granted /\ ledger[i].consumer = ledger[1].consumer
    /\ ledger[2].ts - ledger[1].ts <= SessionWindow
    /\ ledger[3].ts - ledger[2].ts <= SessionWindow
    /\ ledger[3].ts - ledger[1].ts > SessionWindow
    /\ ledger[3].sess
    /\ current_views = 1

C23_GrantStateMachine ==
    [][\A p \in Procs :
         (req[p].method \in GrantMethods /\ req[p].pc # "idle"
          /\ req'[p] # req[p]) =>
           /\ req[p].pc = "start" => req'[p].pc \in {"validated", "idle"}
           /\ req[p].pc = "validated" => req'[p].pc \in {"hit", "new"}
           /\ req[p].pc = "new" => req'[p].pc \in {"counted", "idle"}
           /\ req[p].pc \in {"hit", "counted"} => req'[p].pc = "idle"
           /\ req'[p].pc = "counted" => current_views' = current_views + 1
           /\ req'[p].pc = "idle" =>
                LET e == ledger'[Len(ledger')]
                IN /\ last'.cap <=> last'.result = "granted"
                   /\ last'.cap =>
                        /\ req[p].pc \in {"hit", "counted"}
                        /\ Len(ledger') = Len(ledger) + 1
                        /\ e.granted
                        /\ e.consumer = req[p].user /\ e.ip = req[p].ip
                        /\ e.method = req[p].method
                   /\ ~last'.cap => req[p].pc \in {"start", "new"}
           /\ req'[p].pc # "idle" => UNCHANGED <<ledger, last>>]_vars

\* A capability was issued for a counted view after a denial of another
\* request had been entered from Validated.
C23_Witness ==
    /\ last.cap
    /\ last.result = "granted"
    /\ last.stage = "counted"
    /\ Len(ledger) = 2
    /\ ~ledger[1].granted /\ ledger[1].reason = "quota_exhausted"
    /\ ledger[1].seen < artifact.max_views
    /\ ledger[2].granted

\* C24: current_views never decreases, and one grant call changes it by 0 or
\* by exactly +1: +1 only for a successful new-session grant, 0 for every
\* denial, every session hit and every transient failure before the
\* increment; no call runs its increment twice.
C24_CounterSteps ==
    [][/\ current_views' >= current_views
       /\ current_views' <= current_views + 1
       /\ current_views' = current_views + 1
            => \E p \in Procs : req[p].pc = "new" /\ req'[p].pc = "counted"
       /\ \A p \in Procs :
            /\ (req[p].pc = "counted" /\ req'[p] # req[p]) => req'[p].pc = "idle"
            /\ (req[p].pc # "idle" /\ req'[p].pc = "idle") =>
                 /\ current_views' = current_views
                 /\ req[p].pc = "counted"
                      <=> (/\ last'.result = "granted"
                           /\ last'.method \in GrantMethods
                           /\ ~last'.sess)]_vars

C26_ConsumerEntriesBounded ==
    artifact.max_views_per_consumer > 0 =>
      \A who \in clients :
         Cardinality({i \in 1..Len(ledger) :
                        /\ ledger[i].granted
                        /\ ledger[i].method \in GrantMethods
                        /\ ledger[i].consumer = who[1]
                        /\ who[1] = Anon => ledger[i].ip = who[2]})
           <= artifact.max_views_per_consumer

\* C27: retrying is safe: after a grant ended in a transient error at any
\* step, a retry of the whole grant by the same identity within
\* session_window leaves current_views at most 1 higher than it was before
\* the first attempt.
C27_RetryIsSafe ==
    (/\ \A p \in Procs : req[p].pc = "idle"
     /\ last.method \in GrantMethods
     /\ last.result = "granted"
     /\ \A i \in 1..Len(ledger) : ledger[i].consumer = last.user)
      => \A f \in failed :
            (/\ f.user = last.user /\ f.ip = last.ip
             /\ f.at <= last.at
             /\ last.at - f.at <= SessionWindow
             /\ \A g \in failed : g.user = last.user)
              => current_views <= f.cv + 1

\* C29: between two calls of resetLogoutFlag, forceLogout clears the storage
\* and redirects at most once, however many 401 responses arrive
\* concurrently; while isLoggingOut is set every further 401 response is
\* rejected without starting a token refresh.
C29_LogoutOnce ==
    /\ [](browser.logouts <= 1)
    /\ [][\A x \in Xhrs :
            (/\ browser.isLoggingOut
             /\ browser.xhr[x].pc = "sent"
             /\ browser'.xhr[x] # browser.xhr[x]
             /\ browser'.xhr[x].status = 401) =>
              /\ browser'.xhr[x].pc = "done"
              /\ browser'.xhr[x].outcome = "error"
              /\ browser'.xhr[x].refreshes = browser.xhr[x].refreshes
              /\ browser'.logouts = browser.logouts]_vars

\* Two requests ended with Session expired after a single logout.
C29_Witness ==
    /\ browser.isLoggingOut
    /\ browser.logouts = 1
    /\ \A x \in {1, 2} : browser.xhr[x].outcome = "session_expired"

\* C28 (as stated): one request that receives 401 (non-auth endpoint,
\* access token present) triggers at most one token refresh and is replayed
\* at most once; if the replayed request again receives 401, or the refresh
\* fails, or no refresh token exists, forceLogout runs and the request
\* rejects with Session expired.
C28_Original ==
    /\ [](\A x \in Xhrs : browser.xhr[x].refreshes <= 1 /\ browser.xhr[x].sends <= 2)
    /\ [][\A x \in Xhrs :
            LET old == browser.xhr[x]
                new == browser'.xhr[x]
                got401 == /\ old.pc = "sent" /\ new # old /\ new.status = 401
                          /\ ~old.isAuthEndpoint
                expired == /\ new.pc = "done"
                           /\ new.outcome = "session_expired"
                           /\ browser'.isLoggingOut
            IN /\ (got401 /\ old.retry) => expired
               /\ (old.pc = "refreshing" /\ new.pc = "done") => expired
               /\ (got401 /\ ~old.retry /\ browser.access_token
                   /\ ~browser.refresh_token) => expired]_vars

\* C28 (amended): the same, where the replayed 401 and the missing refresh
\* token lead to forceLogout and Session expired only while no logout is in
\* progress and an access token is stored; a 401 that arrives while
\* isLoggingOut is set, or a replayed 401 that finds no access token, is
\* rejected with the 401 error itself, without refresh, replay or logout.
C28_RefreshOnceReplayOnce ==
    /\ [](\A x \in Xhrs : browser.xhr[x].refreshes <= 1 /\ browser.xhr[x].sends <= 2)
    /\ [][\A x \in Xhrs :
            LET old == browser.xhr[x]
                new == browser'.xhr[x]
                got401 == /\ old.pc = "sent" /\ new # old /\ new.status = 401
                          /\ ~old.isAuthEndpoint
                expired == /\ new.pc = "done"
                           /\ new.outcome = "session_expired"
                           /\ browser'.isLoggingOut
                plain == /\ new.pc = "done"
                         /\ new.outcome = "error"
                         /\ new.refreshes = old.refreshes
                         /\ new.sends = old.sends
                         /\ browser'.logouts = browser.logouts
            IN /\ (got401 /\ old.retry /\ ~browser.isLoggingOut
                   /\ browser.access_token) => expired
               /\ (old.pc = "refreshing" /\ new.pc = "done") => expired
               /\ (got401 /\ ~old.retry /\ ~browser.isLoggingOut
                   /\ browser.access_token /\ ~browser.refresh_token) => expired
               /\ (got401 /\ browser.isLoggingOut) => plain
               /\ (got401 /\ ~browser.access_token) => plain
               /\ (got401 /\ new.pc = "refreshing")
                    => (~old.retry /\ new.retry /\ new.refreshes = 1)
               /\ (old.pc = "refreshing" /\ new.pc = "sent") => new.sends = 2]_vars

\* A request was refreshed once, replayed once, answered 401 again and
\* ended with Session expired and the logout.
C28_Witness ==
    \E x \in Xhrs :
       /\ browser.xhr[x].pc = "done"
       /\ browser.xhr[x].refreshes = 1
       /\ browser.xhr[x].sends = 2
       /\ browser.xhr[x].status = 401
       /\ browser.xhr[x].outcome = "session_expired"
       /\ browser.logouts = 1
       /\ \A y \in Xhrs : y # x => browser.xhr[y].pc = "idle"

\* C30: after a consumer has signed in, the validate, view and download
\* requests sent by the file access page carry that consumer's
\* authenticated identity, so that a signed-in consumer's validate on a
\* require_signin artifact is not denied with signin_required.
C30_PageCarriesIdentity ==
    (browser.user # Anon /\ last.result # "none")
      => /\ last.user = browser.user
         /\ (artifact.require_signin /\ last.method = "validate")
              => last.result # "signin_required"
====
